---- MODULE Spec2Model ----
(***************************************************************************)
(* Task / approval lifecycle engine of the Personal AI Employee.           *)
(*                                                                         *)
(* Two polling programs share the folders Needs_Action, Plans,             *)
(* Pending_Approval, Approved, Rejected and Done:                          *)
(*   - the orchestrator (orchestrator.py: TaskManager + main loop),        *)
(*   - the approval manager (approval_manager.py: ApprovalManager).        *)
(* Watchers write task records, a human moves approval requests between    *)
(* folders, and a wall clock drives time stamps and expiry.                *)
(*                                                                         *)
(* Modelled on their own, each with a specification of its own: the       *)
(* analytics file and the processes that update it, one call of            *)
(* execute_plan with its return value, the LinkedIn posting monitor        *)
(* (linkedin_integration.py) and the alert records of the scheduler        *)
(* (scheduler.py).                                                         *)
(*                                                                         *)
(* A file name is modelled by its underscore-separated segments plus the   *)
(* second-resolution time stamp that ends it; a folder is a function from  *)
(* file names to file contents.                                            *)
(***************************************************************************)
EXTENDS Integers, Sequences, FiniteSets, TLC

VARIABLES
    now,                \* wall clock, in seconds
    Needs_Action,       \* set of task ids (file stems) present in Needs_Action/
    Plans,              \* Plans/: plan file name -> plan content
    Pending_Approval,   \* Pending_Approval/: request file name -> content
    Approved,           \* Approved/
    Rejected,           \* Rejected/
    Done,               \* Done/: [tasks: set of task ids, plans, requests: folders]
    active_tasks,       \* TaskManager.active_tasks: task_id -> plan file
    task_queue,         \* TaskManager.task_queue
    processed_tasks,    \* TaskManager.processed_tasks
    orch_pc,            \* position of the orchestrator main loop
    priority_files,     \* monitor_needs_action: high-priority files not yet visited
    normal_files,       \* monitor_needs_action: normal-priority files not yet visited
    scan_files,         \* process_approval_workflow: files of the current glob not yet visited
    sweeps,             \* ingestion sweeps completed since a watcher last wrote a task
    calls,              \* log of action-handler invocations, in order
    stats,              \* Logs/approval_stats.json
    am_pc,              \* position of the approval manager's monitoring loop
    am_files,           \* files of the approval manager's current listing not yet visited
    am_cur,             \* check_expired_requests: the file being auto-rejected, as read
    am_since,           \* clock value when the current expiry check listed Pending_Approval/
    created,            \* number of create_approval_request calls so far
    chk_pc,             \* position of the orchestrator the scheduler spawned ("off": none runs)
    chk_active,         \* that instance's TaskManager.active_tasks
    chk_queue,          \* that instance's TaskManager.task_queue
    chk_processed,      \* that instance's TaskManager.processed_tasks
    chk_priority,       \* that instance's priority files not yet visited
    chk_normal,         \* that instance's normal files not yet visited
    chk_scan,           \* that instance's process_approval_workflow files not yet visited
    classify_in,        \* get_task_priority: the task content passed in, a string
    classify_out,       \* get_task_priority: the value returned ("": not called yet)
    analytics_file,     \* Logs/approval_stats.json
    loop_update,        \* the update_analytics_* call the monitoring loop is in
    loop_stats,         \* the stats that call loaded
    cs_update,          \* the update the create_sample process is in
    cs_stats,           \* the stats the create_sample process loaded
    events,             \* lifecycle events whose update has returned
    exec_out,           \* the last call of execute_plan: its Plan and the value returned
    li_today,           \* LinkedIn poster: datetime.now().date(), as a day number
    daily_post_count,   \* LinkedInIntegration.daily_post_count
    post_reset_date,    \* LinkedInIntegration.post_reset_date
    approved_posts,     \* Approved/LINKEDIN_POST_*.md
    posts_log,          \* Logs/linkedin_posts.json: one entry per published post
    li_pc,              \* position of start_posting_monitor
    li_files,           \* post_approved_content: files of the listing not yet visited
    scheduler_alerts    \* SCHEDULER_ALERT_*.md records written by run_orchestrator_check

\* the approval manager's own state
amvars == <<stats, am_pc, am_files, am_cur, am_since, created>>

\* the orchestrator's own state
orchvars == <<active_tasks, task_queue, processed_tasks, orch_pc, priority_files,
              normal_files, scan_files, sweeps>>

\* the folders, and the handler log
dirvars == <<Needs_Action, Plans, Pending_Approval, Approved, Rejected, Done, calls>>

\* the state of the orchestrator started by scheduler.run_orchestrator_check
chkvars == <<chk_pc, chk_active, chk_queue, chk_processed, chk_priority,
             chk_normal, chk_scan>>

\* the analytics file and the two processes that update it
statvars == <<analytics_file, loop_update, loop_stats, cs_update, cs_stats, events>>

\* one call of create_plan and execute_plan, with the value returned
execvars == <<exec_out>>

\* the LinkedIn posting monitor
linkvars == <<li_today, daily_post_count, post_reset_date, approved_posts, posts_log,
              li_pc, li_files>>

\* the alert records of the scheduler; they are counted apart from the task
\* records of the watchers in Needs_Action
schedvars == <<scheduler_alerts>>

\* the parts of the program that are modelled on their own
sidevars == <<statvars, execvars, linkvars, schedvars>>

\* one call of get_task_priority on a string, and the parts modelled on their own
purevars == <<classify_in, classify_out, sidevars>>

vars == <<now, dirvars, orchvars, amvars, chkvars, purevars>>

\* everything outside the parts modelled on their own
enginevars == <<now, dirvars, orchvars, amvars, chkvars, classify_in, classify_out>>

\* everything but the analytics file and its two processes
nonstat == <<enginevars, execvars, linkvars, schedvars>>

\* everything but the LinkedIn posting monitor
nonlink == <<enginevars, statvars, execvars, schedvars>>

\* everything but the scheduler's alert records
nonsched == <<classify_in, classify_out, statvars, execvars, linkvars>>

---------------------------------------------------------------------------
(* Bounds of the model *)

MaxSecondTicks == 1     \* one-second clock steps explored after each TTL jump
MaxTTLJumps == 1        \* jumps of the clock by one approval time-to-live
MaxQueue == 2           \* longest task_queue explored
SweepCap == 2           \* the sweep counter saturates here
MaxAlerts == 1          \* the count of scheduler alerts saturates here
MaxRequests == 2        \* create_approval_request calls explored

(* Program constants *)

max_concurrent_tasks == 3
expiry_hours == 24
SecondsPerHour == 3600
TTL == expiry_hours * SecondsPerHour

---------------------------------------------------------------------------
(* Folders as functions with a changing domain *)

EmptyDir == [x \in {} |-> {}]

\* open(path, 'w') + write: create or overwrite
Put(dir, name, content) ==
    [x \in (DOMAIN dir) \cup {name} |-> IF x = name THEN content ELSE dir[x]]

\* the source side of Path.rename
Del(dir, name) == [x \in (DOMAIN dir) \ {name} |-> dir[x]]

---------------------------------------------------------------------------
(* Task records written by the watchers.  A task id is the file stem, given *)
(* by its underscore-separated segments.  The text of a record is the set   *)
(* of words it contains.                                                    *)

Tasks ==
    { <<"EMAIL">>,                 \* EMAIL.md dropped into Drop_Zone, copied by name
      <<"EMAIL", "1", "bob">>,     \* gmail watcher: EMAIL_{timestamp}_{sender}.md
      <<"notes">>,                 \* notes.md dropped into Drop_Zone
      <<"WHATSAPP", "ann", "1">> } \* whatsapp watcher: WHATSAPP_{contact}_{timestamp}.md

task_text(t) ==
    CASE t = <<"EMAIL">>                -> {"payment", "due"}
      [] t = <<"EMAIL", "1", "bob">>    -> {"type", "email", "hello"}
      [] t = <<"notes">>                -> {"hello"}
      [] t = <<"WHATSAPP", "ann", "1">> -> {"type", "whatsapp", "urgent", "invoice"}

urgency_keywords == {"urgent", "asap", "help", "emergency", "critical"}

approval_triggers ==
    {"email", "send", "payment", "financial", "money", "invoice", "social media",
     "post", "marketing", "customer", "client", "urgent", "asap", "critical"}

get_task_priority(task_content) ==
    IF task_content \cap urgency_keywords # {} THEN "high" ELSE "normal"

requires_approval(task_content) == task_content \cap approval_triggers # {}

\* re.match(r'^([A-Z]+)_', filename): the first segment, lower-cased, when it is
\* upper-case letters followed by an underscore
UpperSegments == {"EMAIL", "WHATSAPP", "FILE", "LINKEDIN", "APPROVAL"}

Lower(s) ==
    CASE s = "EMAIL" -> "email"
      [] s = "WHATSAPP" -> "whatsapp"
      [] s = "FILE" -> "file"
      [] s = "LINKEDIN" -> "linkedin"
      [] s = "APPROVAL" -> "approval"

extract_task_type(stem) ==
    IF Len(stem) >= 2 /\ stem[1] \in UpperSegments THEN Lower(stem[1]) ELSE "unknown"

\* PLAN_{task_type}_{timestamp}.md
plan_filename(task_id, t) == [type |-> extract_task_type(task_id), ts |-> t]

\* APPROVAL_{task_id}_{timestamp}.md
approval_filename(task_id, t) == [prefix |-> <<"APPROVAL">> \o task_id, ts |-> t]

\* glob("APPROVAL_*.md")
IsApprovalFile(name) == name.prefix[1] = "APPROVAL"

\* re.search(r'APPROVAL_([^_]+)_', filename).group(1): the text between the
\* first and the second underscore
approval_task_id(name) == <<name.prefix[2]>>

NoFile == [prefix |-> <<>>, ts |-> -1]

\* the file route_for_approval leaves behind: created by open(), never written
EmptyFile == [action |-> "", details_ok |-> FALSE, created |-> -1, expires |-> -1,
              notes |-> 0]

---------------------------------------------------------------------------
(* The orchestrator: TaskManager.  Its methods read and write the folders   *)
(* and active_tasks; they are operators from one such "world" to the next.  *)

World ==
    [Needs_Action |-> Needs_Action, Plans |-> Plans,
     Pending_Approval |-> Pending_Approval, Approved |-> Approved,
     Rejected |-> Rejected, Done |-> Done,
     active_tasks |-> active_tasks, calls |-> calls]

Store(w) ==
    /\ Needs_Action' = w.Needs_Action
    /\ Plans' = w.Plans
    /\ Pending_Approval' = w.Pending_Approval
    /\ Approved' = w.Approved
    /\ Rejected' = w.Rejected
    /\ Done' = w.Done
    /\ active_tasks' = w.active_tasks
    /\ calls' = w.calls

NoPlan == [type |-> "", ts |-> -1]

\* the Plan record create_plan writes: header plus the five unchecked steps
new_plan(task_id) ==
    [task_id |-> task_id,
     requires_approval |-> requires_approval(task_text(task_id)),
     steps |-> {}]

\* mutant: the Plan is written before the task record is read
create_plan_partial(w, task_file, t) ==
    IF task_file \notin w.Needs_Action
    THEN [w |-> [w EXCEPT
                   !.Plans = Put(@, plan_filename(task_file, t), new_plan(task_file))],
          plan_path |-> NoPlan]
    ELSE [w |-> [w EXCEPT
                   !.Plans = Put(@, plan_filename(task_file, t), new_plan(task_file)),
                   !.active_tasks = Put(@, task_file, plan_filename(task_file, t))],
          plan_path |-> plan_filename(task_file, t)]

\* create_plan: the read of the task record comes first, and None is returned
\* when it fails
create_plan(w, task_file, t) ==
    IF task_file \notin w.Needs_Action
    THEN [w |-> w, plan_path |-> NoPlan]
    ELSE [w |-> [w EXCEPT
                   !.Plans = Put(@, plan_filename(task_file, t), new_plan(task_file)),
                   !.active_tasks = Put(@, task_file, plan_filename(task_file, t))],
          plan_path |-> plan_filename(task_file, t)]

update_plan(w, plan_path, new_content) ==
    [w EXCEPT !.Plans = Put(@, plan_path, new_content)]

\* route_for_approval: open() creates the request file, then the write of an
\* undefined name raises, so the file stays empty and the caller's try ends
route_for_approval(w, task_id, t) ==
    [w EXCEPT !.Pending_Approval = Put(@, approval_filename(task_id, t), EmptyFile)]

\* execute_directly: the (simulated) execution, then the task record goes to Done
execute_directly(w, task_id, via) ==
    LET logged == [w EXCEPT !.calls = Append(@,
                      [handler |-> "execute_directly", task |-> task_id,
                       file |-> via, expired |-> FALSE])]
    IN  IF task_id \in w.Needs_Action
        THEN [logged EXCEPT !.Needs_Action = @ \ {task_id},
                            !.Done.tasks = @ \cup {task_id}]
        ELSE logged

\* execute_plan; every exception is caught and only changes the return value
execute_plan(w, plan_path, t) ==
    IF plan_path \notin DOMAIN w.Plans THEN w
    ELSE
      LET content == w.Plans[plan_path]
          task_id == content.task_id
      IN  IF task_id \notin w.Needs_Action THEN w
          ELSE
            LET w2 == update_plan(w, plan_path,
                                  [content EXCEPT !.steps = @ \cup {1, 2}])
            IN  IF content.requires_approval
                THEN route_for_approval(w2, task_id, t)
                ELSE update_plan(execute_directly(w2, task_id, NoFile), plan_path,
                                 [content EXCEPT !.steps = @ \cup {1, 2, 3, 4, 5}])

\* handle_approved_task
handle_approved_task(w, approval_file) ==
    LET task_id == approval_task_id(approval_file)
        w2 == IF task_id \in w.Needs_Action
              THEN execute_directly(w, task_id, approval_file)
              ELSE w
    IN  IF approval_file \in DOMAIN w2.Approved
        THEN [w2 EXCEPT !.Done.requests = Put(@, approval_file, w2.Approved[approval_file]),
                        !.Approved = Del(@, approval_file)]
        ELSE w2

\* handle_rejected_task
handle_rejected_task(w, rejection_file) ==
    LET task_id == approval_task_id(rejection_file)
        w2 == IF task_id \in w.Needs_Action
              THEN [w EXCEPT !.Needs_Action = @ \ {task_id},
                             !.Done.tasks = @ \cup {task_id}]
              ELSE w
    IN  IF rejection_file \in DOMAIN w2.Rejected
        THEN [w2 EXCEPT !.Done.requests = Put(@, rejection_file, w2.Rejected[rejection_file]),
                        !.Rejected = Del(@, rejection_file)]
        ELSE w2

---------------------------------------------------------------------------
(* The orchestrator main loop: monitor_needs_action, monitor_plans,         *)
(* process_approval_workflow, sleep.                                        *)

\* mutant: the processed_tasks check is lost
AlreadyProcessed_lost(task_id, processed) == FALSE

AlreadyProcessed(task_id, processed) == task_id \in processed

\* mutant: every new task is sent to the queue
AtCapacity_always(active) == TRUE

\* mutant: off-by-one in the capacity check
AtCapacity_off(active) == Cardinality(DOMAIN active) > max_concurrent_tasks

AtCapacity(active) == Cardinality(DOMAIN active) >= max_concurrent_tasks

Bump(n) == IF n < SweepCap THEN n + 1 ELSE n

\* monitor_needs_action, up to the split into priority and normal files
ListNeedsAction ==
    /\ orch_pc = "sleep"
    /\ IF Needs_Action = {}
       THEN /\ orch_pc' = "plans"
            /\ sweeps' = Bump(sweeps)
            /\ UNCHANGED <<priority_files, normal_files>>
       ELSE /\ orch_pc' = "ingest"
            /\ priority_files' =
                 {f \in Needs_Action : get_task_priority(task_text(f)) = "high"}
            /\ normal_files' =
                 {f \in Needs_Action : get_task_priority(task_text(f)) # "high"}
            /\ UNCHANGED sweeps
    /\ UNCHANGED purevars
    /\ UNCHANGED <<chkvars, amvars, now, Needs_Action, Plans, Pending_Approval, Approved, Rejected,
                   Done, active_tasks, task_queue, processed_tasks, scan_files, calls>>

\* mutant: the listing is worked through in no particular order
next_files_any(priority, normal) == priority \cup normal

\* all_files = priority_files + normal_files: the files the loop can come to
\* next are the priority files for as long as there are any
next_files(priority, normal) == IF priority # {} THEN priority ELSE normal

\* one iteration of "for file_path in all_files": priority files come first,
\* the order within a group is the order the directory listing gave
IngestFile ==
    /\ orch_pc = "ingest"
    /\ \E f \in next_files(priority_files, normal_files) :
         /\ priority_files' = priority_files \ {f}
         /\ normal_files' = normal_files \ {f}
         /\ IF AlreadyProcessed(f, processed_tasks)
            THEN UNCHANGED <<Needs_Action, Plans, Pending_Approval, Approved, Rejected,
                             Done, active_tasks, task_queue, processed_tasks, calls>>
            ELSE IF AtCapacity(active_tasks)
            THEN /\ Len(task_queue) < MaxQueue
                 /\ task_queue' = Append(task_queue, f)
                 /\ UNCHANGED <<Needs_Action, Plans, Pending_Approval, Approved,
                                Rejected, Done, active_tasks, processed_tasks, calls>>
            ELSE LET made == create_plan(World, f, now)
                 IN  IF made.plan_path = NoPlan
                     THEN /\ Store(made.w)
                          /\ UNCHANGED <<task_queue, processed_tasks>>
                     ELSE /\ Store(execute_plan(made.w, made.plan_path, now))
                          /\ processed_tasks' = processed_tasks \cup {f}
                          /\ UNCHANGED task_queue
    /\ UNCHANGED purevars
    /\ UNCHANGED <<chkvars, amvars, now, orch_pc, scan_files, sweeps>>

\* mutant: the loop runs for as long as task_queue is not empty
RECURSIVE drain_unguarded(_, _, _, _)
drain_unguarded(queue, active, processed, present) ==
    IF queue = <<>>
    THEN [queue |-> queue, blocked |-> FALSE, file |-> <<>>]
    ELSE IF Head(queue) \in processed \/ Head(queue) \notin present
    THEN drain_unguarded(Tail(queue), active, processed, present)
    ELSE [queue |-> Tail(queue), blocked |-> TRUE, file |-> Head(queue)]

\* "while capacity and task_queue" under task_lock: pops queued files; for one
\* not yet processed it calls create_plan, which writes the Plan and then
\* waits for task_lock, held by this very loop
RECURSIVE drain(_, _, _, _)
drain(queue, active, processed, present) ==
    IF AtCapacity(active) \/ queue = <<>>
    THEN [queue |-> queue, blocked |-> FALSE, file |-> <<>>]
    ELSE IF Head(queue) \in processed
    THEN drain(Tail(queue), active, processed, present)
    ELSE IF Head(queue) \notin present
    THEN \* create_plan cannot read the record and returns None
         drain(Tail(queue), active, processed, present)
    ELSE [queue |-> Tail(queue), blocked |-> TRUE, file |-> Head(queue)]

DrainQueue ==
    /\ orch_pc = "ingest"
    /\ priority_files = {} /\ normal_files = {}
    /\ LET d == drain(task_queue, active_tasks, processed_tasks, Needs_Action)
       IN  /\ task_queue' = d.queue
           /\ IF d.blocked
              THEN /\ orch_pc' = "blocked"
                   /\ Plans' = IF d.file \in Needs_Action
                               THEN Put(Plans, plan_filename(d.file, now), new_plan(d.file))
                               ELSE Plans
              ELSE /\ orch_pc' = "plans"
                   /\ UNCHANGED Plans
    /\ sweeps' = Bump(sweeps)
    /\ UNCHANGED purevars
    /\ UNCHANGED <<chkvars, amvars, now, Needs_Action, Pending_Approval, Approved, Rejected, Done,
                   active_tasks, processed_tasks, priority_files, normal_files,
                   scan_files, calls>>

\* a Plan counts as fully executed when steps 4 and 5 are checked
plan_complete(content) == 4 \in content.steps /\ 5 \in content.steps

\* monitor_plans, then the glob of Approved/ that opens process_approval_workflow
MonitorPlans ==
    /\ orch_pc = "plans"
    /\ LET finished == {p \in DOMAIN Plans : plan_complete(Plans[p])}
       IN  /\ Plans' = [p \in (DOMAIN Plans) \ finished |-> Plans[p]]
           /\ Done' = [Done EXCEPT !.plans =
                [p \in (DOMAIN @) \cup finished |->
                    IF p \in finished THEN Plans[p] ELSE @[p]]]
    /\ scan_files' = {f \in DOMAIN Approved : IsApprovalFile(f)}
    /\ orch_pc' = "approved"
    /\ UNCHANGED purevars
    /\ UNCHANGED <<chkvars, amvars, now, Needs_Action, Pending_Approval, Approved, Rejected,
                   active_tasks, task_queue, processed_tasks, priority_files,
                   normal_files, calls, sweeps>>

HandleApproved ==
    /\ orch_pc = "approved"
    /\ \E f \in scan_files :
         /\ Store(handle_approved_task(World, f))
         /\ scan_files' = scan_files \ {f}
    /\ UNCHANGED purevars
    /\ UNCHANGED <<chkvars, amvars, now, task_queue, processed_tasks, orch_pc, priority_files,
                   normal_files, sweeps>>

\* the glob of Rejected/
ListRejected ==
    /\ orch_pc = "approved"
    /\ scan_files = {}
    /\ scan_files' = {f \in DOMAIN Rejected : IsApprovalFile(f)}
    /\ orch_pc' = "rejected"
    /\ UNCHANGED purevars
    /\ UNCHANGED <<chkvars, amvars, now, Needs_Action, Plans, Pending_Approval, Approved, Rejected,
                   Done, active_tasks, task_queue, processed_tasks, priority_files,
                   normal_files, calls, sweeps>>

HandleRejected ==
    /\ orch_pc = "rejected"
    /\ \E f \in scan_files :
         /\ Store(handle_rejected_task(World, f))
         /\ scan_files' = scan_files \ {f}
    /\ UNCHANGED purevars
    /\ UNCHANGED <<chkvars, amvars, now, task_queue, processed_tasks, orch_pc, priority_files,
                   normal_files, sweeps>>

\* update_dashboard, health_check, time.sleep(30)
Sleep ==
    /\ orch_pc = "rejected"
    /\ scan_files = {}
    /\ orch_pc' = "sleep"
    /\ UNCHANGED purevars
    /\ UNCHANGED <<chkvars, amvars, now, Needs_Action, Plans, Pending_Approval, Approved, Rejected,
                   Done, active_tasks, task_queue, processed_tasks, priority_files,
                   normal_files, scan_files, calls, sweeps>>

Orchestrator ==
    \/ ListNeedsAction
    \/ IngestFile
    \/ DrainQueue
    \/ MonitorPlans
    \/ HandleApproved
    \/ ListRejected
    \/ HandleRejected
    \/ Sleep

---------------------------------------------------------------------------
(* The environment: watchers, the human, the clock *)

\* a watcher writes a new task record into Needs_Action/
WatcherCreate(t) ==
    /\ t \notin Needs_Action
    /\ t \notin Done.tasks
    /\ Needs_Action' = Needs_Action \cup {t}
    /\ sweeps' = 0
    /\ UNCHANGED purevars
    /\ UNCHANGED <<chkvars, amvars, now, Plans, Pending_Approval, Approved, Rejected, Done,
                   active_tasks, task_queue, processed_tasks, orch_pc,
                   priority_files, normal_files, scan_files, calls>>

\* the human decision: the request file is moved out of Pending_Approval/
HumanApprove(f) ==
    /\ f \in DOMAIN Pending_Approval
    /\ Approved' = Put(Approved, f, Pending_Approval[f])
    /\ Pending_Approval' = Del(Pending_Approval, f)
    /\ UNCHANGED purevars
    /\ UNCHANGED <<chkvars, amvars, now, Needs_Action, Plans, Rejected, Done, active_tasks,
                   task_queue, processed_tasks, orch_pc, priority_files,
                   normal_files, scan_files, calls, sweeps>>

HumanReject(f) ==
    /\ f \in DOMAIN Pending_Approval
    /\ Rejected' = Put(Rejected, f, Pending_Approval[f])
    /\ Pending_Approval' = Del(Pending_Approval, f)
    /\ UNCHANGED purevars
    /\ UNCHANGED <<chkvars, amvars, now, Needs_Action, Plans, Approved, Done, active_tasks,
                   task_queue, processed_tasks, orch_pc, priority_files,
                   normal_files, scan_files, calls, sweeps>>

\* the clock advances by a second
TickSecond ==
    /\ now % TTL < MaxSecondTicks
    /\ now' = now + 1
    /\ UNCHANGED purevars
    /\ UNCHANGED <<dirvars, orchvars, amvars, chkvars>>

\* a day goes by between two sweeps: the clock advances to the next multiple
\* of the approval time-to-live
TickTTL ==
    /\ am_pc = "sleep"
    /\ now \div TTL < MaxTTLJumps
    /\ now' = (now \div TTL + 1) * TTL
    /\ UNCHANGED purevars
    /\ UNCHANGED <<dirvars, orchvars, amvars, chkvars>>

---------------------------------------------------------------------------
(* The approval manager: ApprovalManager.  Its methods are operators on the  *)
(* request folders, the analytics file and the handler log.                  *)

ActionTypes == {"payment", "report"}

\* {action_type.upper()}_REQ_{timestamp}.md
UpperAction(action_type) ==
    CASE action_type = "email_send" -> <<"EMAIL", "SEND">>
      [] action_type = "social_post" -> <<"SOCIAL", "POST">>
      [] action_type = "payment" -> <<"PAYMENT">>
      [] action_type = "report" -> <<"REPORT">>

request_filename(action_type, t) == [prefix |-> UpperAction(action_type) \o <<"REQ">>, ts |-> t]

\* the request record: action, created, expires = created + expiry_hours;
\* details_ok says whether the details carry the fields the handler looks for
request_content(action_type, details_ok, t) ==
    [action |-> action_type, details_ok |-> details_ok, created |-> t,
     expires |-> t + TTL, notes |-> 0]

AMWorld ==
    [Pending_Approval |-> Pending_Approval, Approved |-> Approved,
     Rejected |-> Rejected, Done |-> Done, stats |-> stats, calls |-> calls]

AMStore(w) ==
    /\ Pending_Approval' = w.Pending_Approval
    /\ Approved' = w.Approved
    /\ Rejected' = w.Rejected
    /\ Done' = w.Done
    /\ stats' = w.stats
    /\ calls' = w.calls

update_analytics_on_creation(w) == [w EXCEPT !.stats.total_requests = @ + 1]

update_analytics_on_approval(w) == [w EXCEPT !.stats.approved_requests = @ + 1]

update_analytics_on_rejection(w) == [w EXCEPT !.stats.rejected_requests = @ + 1]

update_analytics_on_expiry(w) == [w EXCEPT !.stats.expired_requests = @ + 1]

\* create_approval_request: write the file, count it
create_approval_request(w, action_type, details_ok, t) ==
    update_analytics_on_creation(
        [w EXCEPT !.Pending_Approval =
            Put(@, request_filename(action_type, t),
                request_content(action_type, details_ok, t))])

\* the dispatch of execute_approved_action
handler_for(action_type) ==
    CASE action_type = "email_send" -> "execute_email_send"
      [] action_type = "social_post" -> "execute_social_post"
      [] action_type = "payment" -> "execute_payment"
      [] OTHER -> "execute_generic_action"

\* execute_email_send / execute_social_post / execute_payment return False when
\* the details lack their fields; execute_generic_action returns True
handler_succeeds(handler, content) ==
    IF handler = "execute_generic_action" THEN TRUE ELSE content.details_ok

\* the expires field of a record without an "expires: " line (re.search finds
\* nothing), and of one whose line datetime.fromisoformat cannot parse
NoExpires == -1
BadExpires == -2

\* mutant: a record without a usable expires line is taken for expired
is_expired_guess(content, t) == t >= content.expires

\* "datetime.now() >= expires_at", for a record with an expires line that
\* parses; no line, or a ValueError, leaves the record alone
is_expired(content, t) ==
    /\ content.expires # NoExpires
    /\ content.expires # BadExpires
    /\ t >= content.expires

\* mutant: the move to Done/ is lost
archive_lost(w, dir, name) ==
    IF dir = "Approved"
    THEN [w EXCEPT !.Approved = Del(@, name)]
    ELSE [w EXCEPT !.Rejected = Del(@, name)]

\* approval_file.rename(self.done_dir / approval_file.name), from Approved/ or Rejected/
archive(w, dir, name) ==
    IF dir = "Approved"
    THEN [w EXCEPT !.Done.requests = Put(@, name, w.Approved[name]),
                   !.Approved = Del(@, name)]
    ELSE [w EXCEPT !.Done.requests = Put(@, name, w.Rejected[name]),
                   !.Rejected = Del(@, name)]

\* execute_approved_action: the new world and the value returned
execute_approved_action(w, approval_file, t) ==
    IF approval_file \notin DOMAIN w.Approved
    THEN [w |-> w, success |-> FALSE]
    ELSE
      LET content == w.Approved[approval_file]
          handler == handler_for(content.action)
          invoked == [w EXCEPT !.calls = Append(@,
                        [handler |-> handler, task |-> <<>>, file |-> approval_file,
                         expired |-> is_expired(content, t)])]
      IN  IF content.action = ""
          THEN [w |-> w, success |-> FALSE]
          ELSE IF handler_succeeds(handler, content)
          THEN [w |-> archive(IF content.created # -1
                              THEN update_analytics_on_approval(invoked)
                              ELSE invoked,
                              "Approved", approval_file),
                success |-> TRUE]
          ELSE [w |-> invoked, success |-> FALSE]

\* mutant: a failed execution is left in Approved/
monitor_approvals_retry(w, approval_file, t) ==
    [w |-> execute_approved_action(w, approval_file, t).w, raised |-> FALSE]

\* one iteration of monitor_approvals: a failed execution is archived too;
\* raised is TRUE when the rename finds no file and the loop is left
monitor_approvals(w, approval_file, t) ==
    LET r == execute_approved_action(w, approval_file, t)
    IN  IF r.success THEN [w |-> r.w, raised |-> FALSE]
        ELSE IF approval_file \in DOMAIN r.w.Approved
        THEN [w |-> archive(r.w, "Approved", approval_file), raised |-> FALSE]
        ELSE [w |-> r.w, raised |-> TRUE]

\* handle_rejected_request; its own try keeps an error from leaving the loop
handle_rejected_request(w, rejection_file) ==
    IF rejection_file \notin DOMAIN w.Rejected THEN w
    ELSE archive(update_analytics_on_rejection(w), "Rejected", rejection_file)

---------------------------------------------------------------------------
(* The approval manager's monitoring loop: check_expired_requests,           *)
(* monitor_approvals, monitor_rejections, sleep.  check_expired_requests      *)
(* reads, rewrites and renames each file in separate file operations.        *)

\* glob of Pending_Approval/ at the start of check_expired_requests
ListPending ==
    /\ am_pc = "sleep"
    /\ am_files' = DOMAIN Pending_Approval
    /\ am_since' = now
    /\ am_pc' = "expire"
    /\ UNCHANGED purevars
    /\ UNCHANGED <<chkvars, now, dirvars, orchvars, stats, am_cur, created>>

\* open(approval_file, 'r'), the expiry test, update_analytics_on_expiry
ExpireRead ==
    /\ am_pc = "expire"
    /\ \E f \in am_files :
         IF f \notin DOMAIN Pending_Approval
         THEN \* FileNotFoundError reaches the outer try: the check is over
              /\ am_files' = {}
              /\ UNCHANGED <<stats, am_pc, am_cur>>
         ELSE IF is_expired(Pending_Approval[f], now)
         THEN /\ stats' = update_analytics_on_expiry(AMWorld).stats
              /\ am_cur' = [file |-> f, content |-> Pending_Approval[f]]
              /\ am_pc' = "expire_write"
              /\ am_files' = am_files \ {f}
         ELSE /\ am_files' = am_files \ {f}
              /\ UNCHANGED <<stats, am_pc, am_cur>>
    /\ UNCHANGED purevars
    /\ UNCHANGED <<chkvars, now, dirvars, orchvars, am_since, created>>

\* open(approval_file, 'w'): the content read, plus the Auto-Rejected note
ExpireWrite ==
    /\ am_pc = "expire_write"
    /\ Pending_Approval' =
         Put(Pending_Approval, am_cur.file, [am_cur.content EXCEPT !.notes = @ + 1])
    /\ am_pc' = "expire_rename"
    /\ UNCHANGED purevars
    /\ UNCHANGED <<chkvars, now, Needs_Action, Plans, Approved, Rejected, Done, calls,
                   orchvars, stats, am_files, am_cur, am_since, created>>

\* approval_file.rename(rejected_path)
ExpireRename ==
    /\ am_pc = "expire_rename"
    /\ IF am_cur.file \in DOMAIN Pending_Approval
       THEN /\ Rejected' = Put(Rejected, am_cur.file, Pending_Approval[am_cur.file])
            /\ Pending_Approval' = Del(Pending_Approval, am_cur.file)
            /\ UNCHANGED am_files
       ELSE /\ am_files' = {}
            /\ UNCHANGED <<Pending_Approval, Rejected>>
    /\ am_pc' = "expire"
    /\ am_cur' = [file |-> NoFile, content |-> EmptyFile]
    /\ UNCHANGED purevars
    /\ UNCHANGED <<chkvars, now, Needs_Action, Plans, Approved, Done, calls,
                   orchvars, stats, am_since, created>>

\* glob of Approved/ at the start of monitor_approvals
ListApproved ==
    /\ am_pc = "expire"
    /\ am_files = {}
    /\ am_files' = DOMAIN Approved
    /\ am_pc' = "approvals"
    /\ UNCHANGED purevars
    /\ UNCHANGED <<chkvars, now, dirvars, orchvars, stats, am_cur, am_since, created>>

ProcessApproved ==
    /\ am_pc = "approvals"
    /\ \E f \in am_files :
         LET r == monitor_approvals(AMWorld, f, now)
         IN  /\ AMStore(r.w)
             /\ am_files' = IF r.raised THEN {} ELSE am_files \ {f}
    /\ UNCHANGED purevars
    /\ UNCHANGED <<chkvars, now, Needs_Action, Plans, orchvars, am_pc, am_cur, am_since, created>>

\* glob of Rejected/ at the start of monitor_rejections
ListRejectedRequests ==
    /\ am_pc = "approvals"
    /\ am_files = {}
    /\ am_files' = DOMAIN Rejected
    /\ am_pc' = "rejections"
    /\ UNCHANGED purevars
    /\ UNCHANGED <<chkvars, now, dirvars, orchvars, stats, am_cur, am_since, created>>

ProcessRejected ==
    /\ am_pc = "rejections"
    /\ \E f \in am_files :
         /\ AMStore(handle_rejected_request(AMWorld, f))
         /\ am_files' = am_files \ {f}
    /\ UNCHANGED purevars
    /\ UNCHANGED <<chkvars, now, Needs_Action, Plans, orchvars, am_pc, am_cur, am_since, created>>

\* update_dashboard_count, time.sleep(30)
AMSleep ==
    /\ am_pc = "rejections"
    /\ am_files = {}
    /\ am_pc' = "sleep"
    /\ UNCHANGED purevars
    /\ UNCHANGED <<chkvars, now, dirvars, orchvars, stats, am_files, am_cur, am_since, created>>

ApprovalManager ==
    \/ ListPending
    \/ ExpireRead
    \/ ExpireWrite
    \/ ExpireRename
    \/ ListApproved
    \/ ProcessApproved
    \/ ListRejectedRequests
    \/ ProcessRejected
    \/ AMSleep

\* the details a request can carry: with or without the fields its handler
\* looks for; execute_generic_action looks for none
DetailsFor(action_type) ==
    IF handler_for(action_type) = "execute_generic_action" THEN {TRUE} ELSE BOOLEAN

\* "approval_manager.py create_sample <action_type> <details>".  A request
\* written in the second of an earlier one of its type replaces it while that
\* one is still pending; a human decision and the sweep that follows it take
\* longer than the second that names the file
CreateRequest(action_type, details_ok) ==
    /\ created < MaxRequests
    /\ LET name == request_filename(action_type, now)
       IN  /\ name \notin DOMAIN Approved
           /\ name \notin DOMAIN Rejected
           /\ name \notin DOMAIN Done.requests
    /\ AMStore(create_approval_request(AMWorld, action_type, details_ok, now))
    /\ created' = created + 1
    /\ UNCHANGED purevars
    /\ UNCHANGED <<chkvars, now, Needs_Action, Plans, orchvars, am_pc, am_files, am_cur, am_since>>

---------------------------------------------------------------------------
EngineInit ==
    /\ now = 0
    /\ Needs_Action = {}
    /\ Plans = EmptyDir
    /\ Pending_Approval = EmptyDir
    /\ Approved = EmptyDir
    /\ Rejected = EmptyDir
    /\ Done = [tasks |-> {}, plans |-> EmptyDir, requests |-> EmptyDir]
    /\ active_tasks = EmptyDir
    /\ task_queue = <<>>
    /\ processed_tasks = {}
    /\ orch_pc = "sleep"
    /\ priority_files = {}
    /\ normal_files = {}
    /\ scan_files = {}
    /\ calls = <<>>
    /\ sweeps = 0
    /\ stats = [total_requests |-> 0, approved_requests |-> 0,
                rejected_requests |-> 0, expired_requests |-> 0]
    /\ am_pc = "sleep"
    /\ am_files = {}
    /\ am_cur = [file |-> NoFile, content |-> EmptyFile]
    /\ am_since = 0
    /\ created = 0
    /\ chk_pc = "off"
    /\ chk_active = EmptyDir
    /\ chk_queue = <<>>
    /\ chk_processed = {}
    /\ chk_priority = {}
    /\ chk_normal = {}
    /\ chk_scan = {}

\* init_analytics: the file ApprovalManager.__init__ writes when there is none
initial_stats ==
    [total_requests |-> 0, approved_requests |-> 0, rejected_requests |-> 0,
     expired_requests |-> 0, average_response_time |-> 0]

NoUpdate == [kind |-> "none", response_time |-> 0]

StatInit ==
    /\ analytics_file = initial_stats
    /\ loop_update = NoUpdate
    /\ loop_stats = initial_stats
    /\ cs_update = NoUpdate
    /\ cs_stats = initial_stats
    /\ events = [creation |-> 0, approval |-> 0, rejection |-> 0, expiry |-> 0]

\* no call of execute_plan has returned
NoExec == [plan |-> NoPlan, task_id |-> <<>>, requires_approval |-> FALSE, returned |-> FALSE]

\* LinkedInIntegration.__init__, with no linkedin_posts.json yet
LinkedInInit ==
    /\ li_today = 0
    /\ daily_post_count = 0
    /\ post_reset_date = 0
    /\ approved_posts = {}
    /\ posts_log = {}
    /\ li_pc = "sleep"
    /\ li_files = {}

SideInit ==
    /\ StatInit
    /\ exec_out = NoExec
    /\ LinkedInInit
    /\ scheduler_alerts = 0

Init ==
    /\ EngineInit
    /\ classify_in = <<>>
    /\ classify_out = ""
    /\ SideInit

Next ==
    \/ Orchestrator
    \/ \E t \in Tasks : WatcherCreate(t)
    \/ \E f \in DOMAIN Pending_Approval : HumanApprove(f)
    \/ \E f \in DOMAIN Pending_Approval : HumanReject(f)
    \/ TickSecond

Spec == Init /\ [][Next]_vars

---------------------------------------------------------------------------
(* get_task_priority on strings: a task content is a sequence of            *)
(* characters, lower-cased and searched for each urgency keyword in turn.   *)

MaxContentLen == 5      \* longest task content explored

\* the characters of the contents explored: letters of "asap" in both cases
\* and a letter of no keyword
Letters == {"a", "s", "p", "A", "S", "P", "x"}

Contents == UNION {[1..n -> Letters] : n \in 0..MaxContentLen}

\* self.urgency_keywords, in the order of the list
urgency_keywords_list == <<"urgent", "asap", "help", "emergency", "critical">>

\* the characters of a keyword
Chars(keyword) ==
    CASE keyword = "urgent"    -> <<"u", "r", "g", "e", "n", "t">>
      [] keyword = "asap"      -> <<"a", "s", "a", "p">>
      [] keyword = "help"      -> <<"h", "e", "l", "p">>
      [] keyword = "emergency" -> <<"e", "m", "e", "r", "g", "e", "n", "c", "y">>
      [] keyword = "critical"  -> <<"c", "r", "i", "t", "i", "c", "a", "l">>

\* str.lower() on one character
lower_char(c) ==
    CASE c = "A" -> "a"
      [] c = "S" -> "s"
      [] c = "P" -> "p"
      [] OTHER -> c

\* mutant: the content is searched as it is
content_lower_asis(text) == text

\* content_lower = task_content.lower()
content_lower(text) == [i \in 1..Len(text) |-> lower_char(text[i])]

\* "keyword in content_lower": the keyword starts at some position
IsSubstring(k, text) ==
    \E i \in 1..(Len(text) - Len(k) + 1) : SubSeq(text, i, i + Len(k) - 1) = k

\* "for keyword in self.urgency_keywords: if keyword in content_lower:
\* return 'high'", then "return 'normal'"
RECURSIVE scan_keywords(_, _)
scan_keywords(keywords, lowered) ==
    IF keywords = <<>> THEN "normal"
    ELSE IF IsSubstring(Chars(Head(keywords)), lowered) THEN "high"
    ELSE scan_keywords(Tail(keywords), lowered)

get_task_priority_text(text) == scan_keywords(urgency_keywords_list, content_lower(text))

\* a caller holds a task content
PriorityInit ==
    /\ EngineInit
    /\ classify_in \in Contents
    /\ classify_out = ""
    /\ SideInit

\* one call of get_task_priority: it reads self.urgency_keywords and its
\* argument and writes nothing
Classify ==
    /\ classify_out' = get_task_priority_text(classify_in)
    /\ UNCHANGED <<classify_in, sidevars, now, dirvars, orchvars, amvars, chkvars>>

PriorityNext == Classify

PrioritySpec == PriorityInit /\ [][PriorityNext]_vars

---------------------------------------------------------------------------
(* The orchestrator the scheduler starts: check_needs_action finds task     *)
(* records and run_orchestrator_check runs "python orchestrator.py --check". *)
(* orchestrator.py reads no arguments, so this is a second main loop with a  *)
(* TaskManager of its own on the same folders, killed when the timeout of    *)
(* subprocess.run is over.                                                   *)

\* the folders as the spawned instance's TaskManager sees them
ChkWorld == [World EXCEPT !.active_tasks = chk_active]

ChkStore(w) ==
    /\ Needs_Action' = w.Needs_Action
    /\ Plans' = w.Plans
    /\ Pending_Approval' = w.Pending_Approval
    /\ Approved' = w.Approved
    /\ Rejected' = w.Rejected
    /\ Done' = w.Done
    /\ chk_active' = w.active_tasks
    /\ calls' = w.calls

\* check_needs_action, run_orchestrator_check: a new process, a new TaskManager
SpawnCheck ==
    /\ chk_pc = "off"
    /\ Needs_Action # {}
    /\ chk_pc' = "sleep"
    /\ chk_active' = EmptyDir
    /\ chk_queue' = <<>>
    /\ chk_processed' = {}
    /\ chk_priority' = {}
    /\ chk_normal' = {}
    /\ chk_scan' = {}
    /\ UNCHANGED purevars
    /\ UNCHANGED <<now, dirvars, orchvars, amvars>>

\* subprocess.TimeoutExpired after 60 seconds: the child is killed wherever it
\* is, and create_alert("Orchestrator check timed out") writes an alert record
CheckTimeout ==
    /\ chk_pc # "off"
    /\ chk_pc' = "off"
    /\ scheduler_alerts' = IF scheduler_alerts < MaxAlerts
                           THEN scheduler_alerts + 1 ELSE scheduler_alerts
    /\ UNCHANGED nonsched
    /\ UNCHANGED <<now, dirvars, orchvars, amvars, chk_active, chk_queue,
                   chk_processed, chk_priority, chk_normal, chk_scan>>

ChkListNeedsAction ==
    /\ chk_pc = "sleep"
    /\ IF Needs_Action = {}
       THEN /\ chk_pc' = "plans"
            /\ UNCHANGED <<chk_priority, chk_normal>>
       ELSE /\ chk_pc' = "ingest"
            /\ chk_priority' =
                 {f \in Needs_Action : get_task_priority(task_text(f)) = "high"}
            /\ chk_normal' =
                 {f \in Needs_Action : get_task_priority(task_text(f)) # "high"}
    /\ UNCHANGED purevars
    /\ UNCHANGED <<now, dirvars, orchvars, amvars, chk_active, chk_queue,
                   chk_processed, chk_scan>>

ChkIngestFile ==
    /\ chk_pc = "ingest"
    /\ \E f \in next_files(chk_priority, chk_normal) :
         /\ chk_priority' = chk_priority \ {f}
         /\ chk_normal' = chk_normal \ {f}
         /\ IF AlreadyProcessed(f, chk_processed)
            THEN UNCHANGED <<dirvars, chk_active, chk_queue, chk_processed>>
            ELSE IF AtCapacity(chk_active)
            THEN /\ Len(chk_queue) < MaxQueue
                 /\ chk_queue' = Append(chk_queue, f)
                 /\ UNCHANGED <<dirvars, chk_active, chk_processed>>
            ELSE LET made == create_plan(ChkWorld, f, now)
                 IN  IF made.plan_path = NoPlan
                     THEN /\ ChkStore(made.w)
                          /\ UNCHANGED <<chk_queue, chk_processed>>
                     ELSE /\ ChkStore(execute_plan(made.w, made.plan_path, now))
                          /\ chk_processed' = chk_processed \cup {f}
                          /\ UNCHANGED chk_queue
    /\ UNCHANGED purevars
    /\ UNCHANGED <<now, orchvars, amvars, chk_pc, chk_scan>>

ChkDrainQueue ==
    /\ chk_pc = "ingest"
    /\ chk_priority = {} /\ chk_normal = {}
    /\ LET d == drain(chk_queue, chk_active, chk_processed, Needs_Action)
       IN  /\ chk_queue' = d.queue
           /\ IF d.blocked
              THEN /\ chk_pc' = "blocked"
                   /\ Plans' = IF d.file \in Needs_Action
                               THEN Put(Plans, plan_filename(d.file, now), new_plan(d.file))
                               ELSE Plans
              ELSE /\ chk_pc' = "plans"
                   /\ UNCHANGED Plans
    /\ UNCHANGED purevars
    /\ UNCHANGED <<now, Needs_Action, Pending_Approval, Approved, Rejected, Done, calls,
                   orchvars, amvars, chk_active, chk_processed, chk_priority,
                   chk_normal, chk_scan>>

ChkMonitorPlans ==
    /\ chk_pc = "plans"
    /\ LET finished == {p \in DOMAIN Plans : plan_complete(Plans[p])}
       IN  /\ Plans' = [p \in (DOMAIN Plans) \ finished |-> Plans[p]]
           /\ Done' = [Done EXCEPT !.plans =
                [p \in (DOMAIN @) \cup finished |->
                    IF p \in finished THEN Plans[p] ELSE @[p]]]
    /\ chk_scan' = {f \in DOMAIN Approved : IsApprovalFile(f)}
    /\ chk_pc' = "approved"
    /\ UNCHANGED purevars
    /\ UNCHANGED <<now, Needs_Action, Pending_Approval, Approved, Rejected, calls,
                   orchvars, amvars, chk_active, chk_queue, chk_processed,
                   chk_priority, chk_normal>>

ChkHandleApproved ==
    /\ chk_pc = "approved"
    /\ \E f \in chk_scan :
         /\ ChkStore(handle_approved_task(ChkWorld, f))
         /\ chk_scan' = chk_scan \ {f}
    /\ UNCHANGED purevars
    /\ UNCHANGED <<now, orchvars, amvars, chk_pc, chk_queue, chk_processed,
                   chk_priority, chk_normal>>

ChkListRejected ==
    /\ chk_pc = "approved"
    /\ chk_scan = {}
    /\ chk_scan' = {f \in DOMAIN Rejected : IsApprovalFile(f)}
    /\ chk_pc' = "rejected"
    /\ UNCHANGED purevars
    /\ UNCHANGED <<now, dirvars, orchvars, amvars, chk_active, chk_queue,
                   chk_processed, chk_priority, chk_normal>>

ChkHandleRejected ==
    /\ chk_pc = "rejected"
    /\ \E f \in chk_scan :
         /\ ChkStore(handle_rejected_task(ChkWorld, f))
         /\ chk_scan' = chk_scan \ {f}
    /\ UNCHANGED purevars
    /\ UNCHANGED <<now, orchvars, amvars, chk_pc, chk_queue, chk_processed,
                   chk_priority, chk_normal>>

ChkSleep ==
    /\ chk_pc = "rejected"
    /\ chk_scan = {}
    /\ chk_pc' = "sleep"
    /\ UNCHANGED purevars
    /\ UNCHANGED <<now, dirvars, orchvars, amvars, chk_active, chk_queue,
                   chk_processed, chk_priority, chk_normal, chk_scan>>

SpawnedOrchestrator ==
    \/ SpawnCheck
    \/ CheckTimeout
    \/ ChkListNeedsAction
    \/ ChkIngestFile
    \/ ChkDrainQueue
    \/ ChkMonitorPlans
    \/ ChkHandleApproved
    \/ ChkListRejected
    \/ ChkHandleRejected
    \/ ChkSleep

\* the orchestrator process is stopped and started again: TaskManager.__init__
\* runs anew while the folders keep their files
Restart ==
    /\ active_tasks' = EmptyDir
    /\ task_queue' = <<>>
    /\ processed_tasks' = {}
    /\ orch_pc' = "sleep"
    /\ priority_files' = {}
    /\ normal_files' = {}
    /\ scan_files' = {}
    /\ sweeps' = 0
    /\ UNCHANGED purevars
    /\ UNCHANGED <<chkvars, amvars, now, dirvars>>

\* the task records of the runs with restarts and of those with two
\* orchestrators
PairTasks == {<<"notes">>, <<"EMAIL", "1", "bob">>}

RestartNext ==
    \/ Orchestrator
    \/ \E t \in PairTasks : WatcherCreate(t)
    \/ \E f \in DOMAIN Pending_Approval : HumanApprove(f)
    \/ \E f \in DOMAIN Pending_Approval : HumanReject(f)
    \/ TickSecond
    \/ Restart

RestartSpec == Init /\ [][RestartNext]_vars

\* the long-running orchestrator and the spawned one on the same folders
PairNext ==
    \/ Orchestrator
    \/ SpawnedOrchestrator
    \/ \E t \in PairTasks : WatcherCreate(t)
    \/ \E f \in DOMAIN Pending_Approval : HumanApprove(f)
    \/ \E f \in DOMAIN Pending_Approval : HumanReject(f)
    \/ TickSecond

PairSpec == Init /\ [][PairNext]_vars

\* the two orchestrators with one task record, EMAIL.md, which needs approval,
\* all within one clock second
SoloTasks == {<<"EMAIL">>}

SoloPairNext ==
    \/ Orchestrator
    \/ SpawnedOrchestrator
    \/ \E t \in SoloTasks : WatcherCreate(t)
    \/ \E f \in DOMAIN Pending_Approval : HumanApprove(f)
    \/ \E f \in DOMAIN Pending_Approval : HumanReject(f)

SoloPairSpec == Init /\ [][SoloPairNext]_vars

\* the approval manager with its environment; its requests are a day apart or
\* share their second
AMNext ==
    \/ ApprovalManager
    \/ \E a \in ActionTypes : \E ok \in DetailsFor(a) : CreateRequest(a, ok)
    \/ \E f \in DOMAIN Pending_Approval : HumanApprove(f)
    \/ \E f \in DOMAIN Pending_Approval : HumanReject(f)
    \/ TickTTL

AMSpec == Init /\ [][AMNext]_vars

\* the monitoring loop never stops by itself
FairAMSpec == AMSpec /\ WF_vars(ApprovalManager)

\* the expiries counted up to which a rename may still fail
MaxConflicts == 1

\* approval_file.rename(rejected_path) when Rejected/ already holds a file of
\* that name: Path.rename replaces the target on POSIX (ExpireRename) and
\* raises FileExistsError on Windows, which ends the check with the annotated
\* file still in Pending_Approval/
ExpireRenameConflict ==
    /\ am_pc = "expire_rename"
    /\ stats.expired_requests <= MaxConflicts
    /\ am_cur.file \in DOMAIN Pending_Approval
    /\ am_cur.file \in DOMAIN Rejected
    /\ am_files' = {}
    /\ am_pc' = "expire"
    /\ am_cur' = [file |-> NoFile, content |-> EmptyFile]
    /\ UNCHANGED purevars
    /\ UNCHANGED <<chkvars, now, dirvars, orchvars, stats, am_since, created>>

\* the approval manager on either platform
ConflictAMNext ==
    \/ AMNext
    \/ ExpireRenameConflict

ConflictAMSpec == Init /\ [][ConflictAMNext]_vars

\* the tasks whose requests the orchestrator leaves in Pending_Approval/ for
\* the approval manager to find
RoutedTasks == {<<"EMAIL", "1", "bob">>}

\* the orchestrator's route_for_approval, seen from the approval manager: a
\* request file with no action line appears in Pending_Approval/, once per task
OrchestratorRoutes(t) ==
    /\ requires_approval(task_text(t))
    /\ \A dir \in {Pending_Approval, Approved, Rejected, Done.requests} :
          \A f \in DOMAIN dir : f.prefix # <<"APPROVAL">> \o t
    /\ Pending_Approval' = route_for_approval(World, t, now).Pending_Approval
    /\ UNCHANGED purevars
    /\ UNCHANGED <<now, Needs_Action, Plans, Approved, Rejected, Done, calls,
                   orchvars, amvars, chkvars>>

\* the approval manager beside an orchestrator: its glob("*.md") also lists
\* the orchestrator's request files; its own requests are payments
RoutedAMNext ==
    \/ ApprovalManager
    \/ \E ok \in DetailsFor("payment") : CreateRequest("payment", ok)
    \/ \E f \in DOMAIN Pending_Approval : HumanApprove(f)
    \/ \E f \in DOMAIN Pending_Approval : HumanReject(f)
    \/ \E t \in RoutedTasks : OrchestratorRoutes(t)
    \/ TickTTL

RoutedAMSpec == Init /\ [][RoutedAMNext]_vars

\* the same with a monitoring loop that never stops by itself
FairRoutedAMSpec == RoutedAMSpec /\ WF_vars(ApprovalManager)

\* "To Modify: Edit this file": the human edits a pending request and leaves
\* an expires line that does not parse
HumanEdits(f) ==
    /\ f \in DOMAIN Pending_Approval
    /\ Pending_Approval[f].expires # BadExpires
    /\ Pending_Approval' = [Pending_Approval EXCEPT ![f].expires = BadExpires]
    /\ UNCHANGED purevars
    /\ UNCHANGED <<now, Needs_Action, Plans, Approved, Rejected, Done, calls,
                   orchvars, amvars, chkvars>>

\* the same with requests of one kind and a human who also edits them
EditedAMNext ==
    \/ ApprovalManager
    \/ CreateRequest("report", TRUE)
    \/ \E t \in RoutedTasks : OrchestratorRoutes(t)
    \/ \E f \in DOMAIN Pending_Approval : HumanEdits(f)
    \/ \E f \in DOMAIN Pending_Approval : HumanApprove(f)
    \/ \E f \in DOMAIN Pending_Approval : HumanReject(f)
    \/ TickTTL

EditedAMSpec == Init /\ [][EditedAMNext]_vars

\* The polling loop never stops by itself, and every pending request is
\* eventually decided by the human.  Watchers deliver only FairTasks, so the
\* controller never fills up and task_queue stays empty.
FairTasks == {<<"EMAIL", "1", "bob">>, <<"notes">>, <<"WHATSAPP", "ann", "1">>}

HumanDecide == \E f \in DOMAIN Pending_Approval : HumanApprove(f) \/ HumanReject(f)

FairNext ==
    \/ Orchestrator
    \/ \E t \in FairTasks : WatcherCreate(t)
    \/ HumanDecide
    \/ TickSecond

FairSpec ==
    Init /\ [][FairNext]_vars /\ WF_vars(Orchestrator) /\ WF_vars(HumanDecide)

---------------------------------------------------------------------------
(* The analytics file.  Every update_analytics_* method is load_analytics,   *)
(* a change of the loaded dictionary, save_analytics; nothing locks the      *)
(* file.  The monitoring loop (one process) calls the approval, rejection    *)
(* and expiry updates one after the other; "approval_manager.py              *)
(* create_sample" is another process that calls the creation update.         *)
(* Response times are whole seconds.                                         *)

MaxEvents == 2          \* lifecycle events of each kind

ResponseTimes == {2, 4}

\* update_analytics_on_creation between load and save
on_creation(loaded) == [loaded EXCEPT !.total_requests = @ + 1]

\* update_analytics_on_approval between load and save:
\* new_avg = ((current_avg * (total_approved - 1)) + response_time) / total_approved
on_approval(loaded, response_time) ==
    LET total_approved == loaded.approved_requests + 1
        current_avg == loaded.average_response_time
    IN  [loaded EXCEPT
           !.approved_requests = total_approved,
           !.average_response_time =
               ((current_avg * (total_approved - 1)) + response_time) \div total_approved]

\* update_analytics_on_rejection between load and save
on_rejection(loaded) == [loaded EXCEPT !.rejected_requests = @ + 1]

\* update_analytics_on_expiry between load and save
on_expiry(loaded) == [loaded EXCEPT !.expired_requests = @ + 1]

\* the dictionary an update saves
updated(update, loaded) ==
    CASE update.kind = "creation" -> on_creation(loaded)
      [] update.kind = "approval" -> on_approval(loaded, update.response_time)
      [] update.kind = "rejection" -> on_rejection(loaded)
      [] update.kind = "expiry" -> on_expiry(loaded)

\* stats = self.load_analytics(), in the monitoring loop: execute_approved_action
\* (a handler succeeded, response_time computed), handle_rejected_request or
\* check_expired_requests has called its update
LoopLoad(kind, response_time) ==
    /\ loop_update = NoUpdate
    /\ events[kind] < MaxEvents
    /\ loop_stats' = analytics_file
    /\ loop_update' = [kind |-> kind, response_time |-> response_time]
    /\ UNCHANGED <<analytics_file, cs_update, cs_stats, events>>
    /\ UNCHANGED nonstat

\* self.save_analytics(stats), in the monitoring loop
LoopSave ==
    /\ loop_update # NoUpdate
    /\ analytics_file' = updated(loop_update, loop_stats)
    /\ events' = [events EXCEPT ![loop_update.kind] = @ + 1]
    /\ loop_update' = NoUpdate
    /\ UNCHANGED <<loop_stats, cs_update, cs_stats>>
    /\ UNCHANGED nonstat

\* stats = self.load_analytics(), in create_approval_request run by main for
\* the create_sample command
CreateSampleLoad ==
    /\ cs_update = NoUpdate
    /\ events.creation < MaxEvents
    /\ cs_stats' = analytics_file
    /\ cs_update' = [kind |-> "creation", response_time |-> 0]
    /\ UNCHANGED <<analytics_file, loop_update, loop_stats, events>>
    /\ UNCHANGED nonstat

\* self.save_analytics(stats), in the create_sample process, which then ends
CreateSampleSave ==
    /\ cs_update # NoUpdate
    /\ analytics_file' = updated(cs_update, cs_stats)
    /\ events' = [events EXCEPT !.creation = @ + 1]
    /\ cs_update' = NoUpdate
    /\ UNCHANGED <<cs_stats, loop_update, loop_stats>>
    /\ UNCHANGED nonstat

AnalyticsNext ==
    \/ \E response_time \in ResponseTimes : LoopLoad("approval", response_time)
    \/ LoopLoad("rejection", 0)
    \/ LoopLoad("expiry", 0)
    \/ LoopSave
    \/ CreateSampleLoad
    \/ CreateSampleSave

AnalyticsSpec == Init /\ [][AnalyticsNext]_vars

---------------------------------------------------------------------------
(* The stop signal.  run_monitoring_loop catches KeyboardInterrupt around   *)
(* the body of its loop and leaves the loop; no signal handler is           *)
(* installed and the methods called by the sweep catch Exception only, so   *)
(* the interrupt is raised wherever the sweep is and ends it there.         *)

AMStop ==
    /\ am_pc # "stopped"
    /\ am_pc' = "stopped"
    /\ UNCHANGED purevars
    /\ UNCHANGED <<chkvars, now, dirvars, orchvars, stats, am_files, am_cur, am_since, created>>

StopAMNext ==
    \/ AMNext
    \/ AMStop

StopAMSpec == Init /\ [][StopAMNext]_vars

---------------------------------------------------------------------------
(* One call of execute_plan, with the value it returns.  The callers in     *)
(* monitor_needs_action drop that value, so it is recorded here: a task     *)
(* record in Needs_Action/ is planned and its Plan executed, as in one      *)
(* iteration of the ingestion loop.                                         *)

\* the value execute_plan returns: False from "return False" and from the
\* except clause, True when the method's last line is reached
execute_plan_returns(w, plan_path, t) ==
    IF plan_path \notin DOMAIN w.Plans THEN FALSE
    ELSE
      LET content == w.Plans[plan_path]
          task_id == content.task_id
      IN  IF task_id \notin w.Needs_Action THEN FALSE
          ELSE IF content.requires_approval
          THEN \* route_for_approval raises NameError
               FALSE
          ELSE \* original_task_path.rename(done_path) after execute_directly:
               \* FileNotFoundError unless the record is still in Needs_Action/
               task_id \in execute_directly(w, task_id, NoFile).Needs_Action

\* plan_path = task_manager.create_plan(str(file_path)); if plan_path:
\* task_manager.execute_plan(plan_path)
ExecutePlan(f) ==
    /\ f \in Needs_Action
    /\ LET made == create_plan(World, f, now)
       IN  /\ made.plan_path # NoPlan
           /\ Store(execute_plan(made.w, made.plan_path, now))
           /\ exec_out' =
                [plan |-> made.plan_path, task_id |-> f,
                 requires_approval |-> made.w.Plans[made.plan_path].requires_approval,
                 returned |-> execute_plan_returns(made.w, made.plan_path, now)]
    /\ UNCHANGED <<classify_in, classify_out, statvars, linkvars, schedvars>>
    /\ UNCHANGED <<chkvars, amvars, now, task_queue, processed_tasks, orch_pc,
                   priority_files, normal_files, scan_files, sweeps>>

ExecNext ==
    \/ \E t \in Tasks : WatcherCreate(t)
    \/ \E f \in Needs_Action : ExecutePlan(f)
    \/ TickSecond

ExecSpec == Init /\ [][ExecNext]_vars

---------------------------------------------------------------------------
(* The orchestrator with a human who decides every request, on one task     *)
(* that needs approval and one that does not.                               *)

ArchiveTasks == {<<"EMAIL">>, <<"notes">>}

ArchiveNext ==
    \/ Orchestrator
    \/ \E t \in ArchiveTasks : WatcherCreate(t)
    \/ HumanDecide
    \/ TickSecond

\* the polling loop never stops by itself, and the human decides every request
ArchiveSpec ==
    Init /\ [][ArchiveNext]_vars /\ WF_vars(Orchestrator) /\ WF_vars(HumanDecide)

---------------------------------------------------------------------------
(* The LinkedIn posting monitor: start_posting_monitor calls                *)
(* post_approved_content every five minutes.  A post is a file              *)
(* Approved/LINKEDIN_POST_<n>.md with scheduled_time "immediate"; a         *)
(* published post is logged with its date and moved to Posted/.             *)

MaxPosts == 4           \* approved LinkedIn posts ever written
MaxDays == 1            \* calendar days after the first

\* "if self.daily_post_count >= 3"
daily_limit == 3

PostIds == 1..MaxPosts

\* the posts published on calendar day d, from the log
PostsOn(d) == {e \in posts_log : e.day = d}

\* the human moves an approved post into Approved/
ApprovePost(p) ==
    /\ p \notin approved_posts
    /\ \A e \in posts_log : e.post # p
    /\ approved_posts' = approved_posts \cup {p}
    /\ UNCHANGED <<li_today, daily_post_count, post_reset_date, posts_log, li_pc, li_files>>
    /\ UNCHANGED nonlink

\* midnight
NextDay ==
    /\ li_today < MaxDays
    /\ li_today' = li_today + 1
    /\ UNCHANGED <<daily_post_count, post_reset_date, approved_posts, posts_log,
                   li_pc, li_files>>
    /\ UNCHANGED nonlink

\* post_approved_content up to its loop: the limit test returns at once (there
\* is nothing to visit), else the counter is reset on a new day and Approved/
\* is listed
StartPosting ==
    /\ li_pc = "sleep"
    /\ li_pc' = "posting"
    /\ IF daily_post_count >= daily_limit
       THEN /\ li_files' = {}
            /\ UNCHANGED <<daily_post_count, post_reset_date>>
       ELSE /\ daily_post_count' =
                 IF li_today # post_reset_date THEN 0 ELSE daily_post_count
            /\ post_reset_date' = li_today
            /\ li_files' = approved_posts
    /\ UNCHANGED <<li_today, approved_posts, posts_log>>
    /\ UNCHANGED nonlink

\* one iteration of "for post_file in approved_posts": make_post, and when it
\* succeeds the count, the log entry and the move to Posted/
PostFile(p, success) ==
    /\ li_pc = "posting"
    /\ p \in li_files
    /\ li_files' = li_files \ {p}
    /\ IF success /\ p \in approved_posts
       THEN /\ daily_post_count' = daily_post_count + 1
            /\ posts_log' = posts_log \cup {[post |-> p, day |-> li_today]}
            /\ approved_posts' = approved_posts \ {p}
       ELSE UNCHANGED <<daily_post_count, posts_log, approved_posts>>
    /\ UNCHANGED <<li_today, post_reset_date, li_pc>>
    /\ UNCHANGED nonlink

\* the loop is over: await asyncio.sleep(interval)
EndPosting ==
    /\ li_pc = "posting"
    /\ li_files = {}
    /\ li_pc' = "sleep"
    /\ UNCHANGED <<li_today, daily_post_count, post_reset_date, approved_posts,
                   posts_log, li_files>>
    /\ UNCHANGED nonlink

PostingMonitor ==
    \/ StartPosting
    \/ \E p \in li_files : \E success \in BOOLEAN : PostFile(p, success)
    \/ EndPosting

LinkedInNext ==
    \/ PostingMonitor
    \/ \E p \in PostIds : ApprovePost(p)
    \/ NextDay

LinkedInSpec == Init /\ [][LinkedInNext]_vars

\* the posting monitor never stops by itself
FairLinkedInSpec == LinkedInSpec /\ WF_vars(PostingMonitor)

---------------------------------------------------------------------------
(* Claims *)

\* the Plan files written for task t, in Plans/ and (archived) in Done/
PlansOf(dir, t) == {p \in DOMAIN dir : dir[p].task_id = t}

PlanCount(t) == Cardinality(PlansOf(Plans, t)) + Cardinality(PlansOf(Done.plans, t))

HasApprovalPlan(t) ==
    \/ \E p \in PlansOf(Plans, t) : Plans[p].requires_approval
    \/ \E p \in PlansOf(Done.plans, t) : Done.plans[p].requires_approval

\* the approval requests route_for_approval created for task t
RequestsOf(dir, t) == {f \in DOMAIN dir : f.prefix = <<"APPROVAL">> \o t}

\* C1: a task whose Plan has requires_approval = true is executed
\* (execute_directly) only while handling an approval request that was created
\* for that task and found in Approved/; never by the ingestion sweep.
C1_ApprovalGate ==
    \A i \in DOMAIN calls :
        LET c == calls[i] IN
        (/\ c.handler = "execute_directly"
         /\ HasApprovalPlan(c.task))
        => c.file = [prefix |-> <<"APPROVAL">> \o c.task, ts |-> c.file.ts]

\* C2: under fair scheduling of the polling loop and of the human decisions,
\* every task record that appears in Needs_Action/ is eventually moved to Done/.
C2_EveryTaskArchived ==
    \A t \in Tasks : (t \in Needs_Action) ~> (t \in Done.tasks)

\* C3: active_tasks never holds more than max_concurrent_tasks entries.
C3_BoundedConcurrency == Cardinality(DOMAIN active_tasks) <= max_concurrent_tasks

\* the controller is full and a further task is being held back
C3_Witness ==
    /\ Cardinality(DOMAIN active_tasks) = max_concurrent_tasks
    /\ task_queue # <<>>

\* C8: within one orchestrator process every task has at most one open
\* approval request (a request file for it in Pending_Approval/).
C8_OneOpenRequest ==
    \A t \in Tasks : Cardinality(RequestsOf(Pending_Approval, t)) <= 1

\* a later sweep, in a later second, visits a task whose request is still open
C8_Witness ==
    \E t \in processed_tasks :
        /\ t \in priority_files \cup normal_files
        /\ \E f \in RequestsOf(Pending_Approval, t) : f.ts < now

\* C9: after two or more ingestion sweeps over an unchanged Needs_Action/,
\* every task the sweeps handled has exactly one Plan.
C9_OnePlanPerTask ==
    sweeps >= 2 => \A t \in processed_tasks : PlanCount(t) = 1

\* the instants at which the approval manager's requests are written
Clock == {j * TTL : j \in 0..MaxTTLJumps}

\* the file names create_approval_request can write
RequestNames == {request_filename(a, t) : a \in ActionTypes, t \in Clock}

\* the handler invocations made for request file f
CallsFor(f) == {i \in DOMAIN calls : calls[i].file = f}

\* the approved requests still waiting in Approved/ for their archived,
\* single execution
Owed ==
    {f \in DOMAIN Approved :
        ~(f \in DOMAIN Done.requests /\ Cardinality(CallsFor(f)) = 1)}

C5_ExpiryWins == \A i \in DOMAIN calls : ~calls[i].expired

\* C6: no action handler is invoked for a request that was moved to Rejected/,
\* by a human or by the expiry check.
C6_RejectedNeverExecuted ==
    \A f \in DOMAIN Rejected : CallsFor(f) = {}

\* C7: when the expiry check of a sweep is over, no request that had expired
\* when the check began is left in Pending_Approval/.
C7_AutoRejectOnExpiry ==
    am_pc \in {"approvals", "rejections"} =>
        \A f \in DOMAIN Pending_Approval : ~is_expired(Pending_Approval[f], am_since)

\* C10: a request name is in at most one of Pending_Approval/, Approved/,
\* Rejected/ and Done/ at every instant.
C10_OnePartition ==
    \A f \in RequestNames :
        Cardinality({d \in {"Pending_Approval", "Approved", "Rejected", "Done"} :
            f \in DOMAIN (CASE d = "Pending_Approval" -> Pending_Approval
                            [] d = "Approved" -> Approved
                            [] d = "Rejected" -> Rejected
                            [] d = "Done" -> Done.requests)}) <= 1

\* C11: finishing a task removes it from the active set, so that queued tasks
\* are admitted: between two sweeps no task that has reached Done/ is still
\* counted in active_tasks.
C11_ReleaseOnFinish ==
    orch_pc = "sleep" => \A t \in DOMAIN active_tasks : t \notin Done.tasks

\* C12: in every state of the analytics file, approved_requests +
\* rejected_requests + expired_requests <= total_requests.
C12_AnalyticsInvariant ==
    stats.approved_requests + stats.rejected_requests + stats.expired_requests
        <= stats.total_requests

\* the task an approval request was written for: APPROVAL_{task_id}_{timestamp}
request_task(f) == Tail(f.prefix)

\* C13: whenever the orchestrator moves an approval request from Approved/ or
\* Rejected/ into Done/, the task the request was written for is in Done/ at
\* the end of the same step, whatever underscores its id contains.
C13_TaskArchivedWithRequest ==
    [][\A f \in (DOMAIN Done'.requests) \ (DOMAIN Done.requests) :
          request_task(f) \in Done'.tasks]_vars

\* C14: across restarts of the orchestrator a task keeps at most one Plan and
\* at most one open approval request: the first sweep after a restart creates
\* no second Plan and no second request for a task that awaits approval.
C14_RestartRecovery ==
    \A t \in Tasks :
        /\ PlanCount(t) <= 1
        /\ Cardinality(RequestsOf(Pending_Approval, t)) <= 1

\* every approval request written for task t, in whatever folder it lies
AllRequestsOf(t) ==
    RequestsOf(Pending_Approval, t) \cup RequestsOf(Approved, t)
        \cup RequestsOf(Rejected, t) \cup RequestsOf(Done.requests, t)

\* the executions of task t
ExecutionsOf(t) ==
    {i \in DOMAIN calls : calls[i].handler = "execute_directly" /\ calls[i].task = t}

\* C15: with the long-running orchestrator and the one the scheduler spawns
\* sweeping the same folders, each task has at most one Plan and at most one
\* approval request and is executed at most once.
C15_ReentrantSweeps ==
    \A t \in Tasks :
        /\ PlanCount(t) <= 1
        /\ Cardinality(AllRequestsOf(t)) <= 1
        /\ Cardinality(ExecutionsOf(t)) <= 1

\* C16: an error while handling one record of a listing does not stop the
\* sweep step from handling the others: every step of the approval manager
\* takes at most one record off the listing it is working through.
C16_ErrorIsolation ==
    [][Cardinality(am_files \ am_files') <= 1]_vars

\* a request whose execution fails: no action type to be read, or a handler
\* that returns failure
Fails(content) ==
    content.action = "" \/ ~handler_succeeds(handler_for(content.action), content)

C18_FailureVisible ==
    [][\A f \in DOMAIN Approved :
          (/\ Fails(Approved[f])
           /\ f \notin DOMAIN Approved'
           /\ f \in DOMAIN Done'.requests)
          => (Done'.requests[f] # Approved[f] \/ stats' # stats)]_vars

\* a record whose expires field is missing or does not parse
Malformed(content) == content.expires \in {NoExpires, BadExpires}

RequestFolders == {Pending_Approval, Approved, Rejected, Done.requests}

\* the names of the request files there are
ExistingRequests == UNION {DOMAIN dir : dir \in RequestFolders}

\* C20: each request is auto-rejected at most once: the Auto-Rejected
\* annotation is in a request's body at most once, and expired_requests
\* counts no more expiries than there are requests.
C20_IdempotentAutoReject ==
    /\ \A dir \in RequestFolders : \A f \in DOMAIN dir : dir[f].notes <= 1
    /\ stats.expired_requests <= Cardinality(ExistingRequests)

\* the pending requests whose time-to-live, counted from the second in their
\* file name, has elapsed
Overdue == {f \in DOMAIN Pending_Approval : now >= f.ts + TTL}

\* C21: every request the engine creates, by create_approval_request or by
\* route_for_approval, is auto-rejected once its time-to-live has elapsed if
\* no human decides it: requests past their time-to-live do not stay in
\* Pending_Approval/ forever.
C21_TTLCoversEveryRequest == (Overdue # {}) ~> (Overdue = {})

\* C22: within one ingestion sweep the high-priority tasks are handled before
\* any normal-priority task: the loop comes to a normal-priority file only
\* when no priority file of the listing is left, so a normal-priority task
\* that gets a place in active_tasks, or in the queue, gets it after every
\* unprocessed high-priority task of the listing has had its turn.
C22_PriorityOrdering ==
    /\ [][(orch_pc = "ingest" /\ normal_files' # normal_files)
            => priority_files = {}]_vars
    /\ [][\A f \in (DOMAIN active_tasks') \ (DOMAIN active_tasks) :
            (orch_pc = "ingest" /\ get_task_priority(task_text(f)) = "normal")
            => priority_files \ processed_tasks = {}]_vars

\* one free place, one urgent and one normal new task: the sweep has given
\* the last place to the urgent task and has queued the normal one
C22_Witness ==
    /\ orch_pc = "ingest"
    /\ priority_files = {} /\ normal_files = {}
    /\ Cardinality(DOMAIN active_tasks) = max_concurrent_tasks
    /\ \E u \in DOMAIN active_tasks :
          /\ get_task_priority(task_text(u)) = "high"
          /\ active_tasks[u].ts = now
    /\ Len(task_queue) = 1
    /\ get_task_priority(task_text(task_queue[1])) = "normal"
    /\ task_queue[1] \notin processed_tasks

\* C23: distinct tasks have distinct Plan records: a Plan record that is in
\* Plans/ before and after a step belongs to the same task, so creating the
\* Plan of one task never replaces the Plan of another, and no two tasks of
\* active_tasks share a Plan file.
C23_DistinctPlans ==
    /\ [][\A p \in (DOMAIN Plans) \cap (DOMAIN Plans') :
            Plans'[p].task_id = Plans[p].task_id]_vars
    /\ [](\A t1, t2 \in DOMAIN active_tasks :
            active_tasks[t1] = active_tasks[t2] => t1 = t2)

\* C24: when create_plan cannot read the task record nothing of the task is
\* kept: a Plan is written, a task enters active_tasks and a task enters
\* processed_tasks only while its record is in Needs_Action/.
C24_NoPartialPlans ==
    /\ [][\A p \in DOMAIN Plans' :
            (p \notin DOMAIN Plans \/ Plans'[p] # Plans[p])
            => Plans'[p].task_id \in Needs_Action]_vars
    /\ [][\A t \in ((DOMAIN active_tasks') \ (DOMAIN active_tasks))
                    \cup ((DOMAIN chk_active') \ (DOMAIN chk_active)) :
            t \in Needs_Action]_vars
    /\ [][\A t \in (processed_tasks' \ processed_tasks) \cup (chk_processed' \ chk_processed) :
            t \in Needs_Action]_vars

\* the spawned orchestrator listed EMAIL.md, the long-running one archived it
\* on its approval before the loop came to it, and the loop has passed it:
\* it is not processed, not active, not queued
C24_Witness ==
    /\ chk_pc = "ingest"
    /\ chk_priority = {} /\ chk_normal = {}
    /\ Needs_Action = {}
    /\ Done.tasks = {<<"EMAIL">>}
    /\ chk_processed = {}
    /\ chk_active = EmptyDir
    /\ chk_queue = <<>>
    /\ <<"EMAIL">> \in processed_tasks

\* C25: the approval request execute_plan leaves in Pending_Approval/ for a
\* Plan with requires_approval carries the constructed approval content: no
\* request file of the orchestrator in Pending_Approval/ is empty.
C25_RoutingCreatesRequest ==
    \A f \in DOMAIN Pending_Approval :
        IsApprovalFile(f) => Pending_Approval[f] # EmptyFile

\* C26: a move into Approved/, Rejected/ or Done/ never overwrites a record
\* that is already there: over every step of the approval manager a record
\* that is in one of these folders before and after the step is unchanged.
C26_MoveNeverOverwrites ==
    [][(am_pc' # am_pc \/ am_files' # am_files)
        => /\ \A f \in (DOMAIN Approved) \cap (DOMAIN Approved') :
                 Approved'[f] = Approved[f]
           /\ \A f \in (DOMAIN Rejected) \cap (DOMAIN Rejected') :
                 Rejected'[f] = Rejected[f]
           /\ \A f \in (DOMAIN Done.requests) \cap (DOMAIN Done'.requests) :
                 Done'.requests[f] = Done.requests[f]]_vars

\* C27: capacity is never idle while tasks wait: when the ingestion sweep is
\* over, the queue holds a task only if active_tasks is full.
C27_NoIdleCapacity ==
    orch_pc \notin {"ingest", "blocked"}
    => ~(task_queue # <<>>
           /\ Cardinality(DOMAIN active_tasks) < max_concurrent_tasks)

\* a sweep has ended with a task waiting in the queue, still unprocessed and
\* still in Needs_Action/
C27_Witness ==
    /\ orch_pc = "plans"
    /\ task_queue # <<>>
    /\ Head(task_queue) \in Needs_Action
    /\ Head(task_queue) \notin processed_tasks

\* C28: checklist steps are monotonic: over every step, a Plan record that
\* is in Plans/ before and after keeps every step that was checked, and so
\* does a Plan record archived in Done/.
C28_StepsMonotonic ==
    [][/\ \A p \in (DOMAIN Plans) \cap (DOMAIN Plans') :
             Plans[p].steps \subseteq Plans'[p].steps
       /\ \A p \in (DOMAIN Done.plans) \cap (DOMAIN Done'.plans) :
             Done.plans[p].steps \subseteq Done'.plans[p].steps]_vars

\* C29: the requires_approval flag of a Plan is the approval-trigger test of
\* its task's content, and the flag of a Plan record never changes: a record
\* that is in Plans/ before and after a step has the same flag.
C29_ApprovalFlagFixed ==
    /\ [](\A p \in DOMAIN Plans :
            Plans[p].requires_approval = requires_approval(task_text(Plans[p].task_id)))
    /\ [][\A p \in (DOMAIN Plans) \cap (DOMAIN Plans') :
            Plans'[p].requires_approval = Plans[p].requires_approval]_vars

\* the content, read without regard to case, holds an urgency keyword at some
\* position
HasUrgencyKeyword(text) ==
    \E k \in urgency_keywords :
        \E i \in 1..Len(text) :
            /\ i + Len(Chars(k)) - 1 <= Len(text)
            /\ \A j \in 1..Len(Chars(k)) : lower_char(text[i + j - 1]) = Chars(k)[j]

\* C30: get_task_priority is a total, deterministic function of the content:
\* once called, its value is high exactly when the lower-cased content
\* contains one of the five urgency keywords as a substring and normal
\* otherwise, and the call changes nothing of the engine's state.
C30_PriorityClassification ==
    /\ [](classify_out # ""
            => classify_out = IF HasUrgencyKeyword(classify_in) THEN "high" ELSE "normal")
    /\ [][classify_out' # classify_out
            => UNCHANGED <<classify_in, now, dirvars, orchvars, amvars, chkvars>>]_vars

\* a content with the keyword in mixed case inside a longer string is
\* classified high
C30_Witness ==
    /\ classify_in = <<"x", "A", "s", "a", "P">>
    /\ classify_out = "high"

\* C31: approved_requests and average_response_time of the analytics file
\* change only in the save of an approval update; the save of a rejection or
\* expiry update, and every other step, leaves both as they were.
C31_LatencyForApprovalsOnly ==
    [][(\/ analytics_file'.approved_requests # analytics_file.approved_requests
        \/ analytics_file'.average_response_time # analytics_file.average_response_time)
       => (loop_update.kind = "approval" /\ loop_update' = NoUpdate)]_vars

\* C32: when no update is in progress, every counter of the analytics file
\* equals the number of lifecycle events of its kind.
C32_NoLostUpdate ==
    (loop_update = NoUpdate /\ cs_update = NoUpdate) =>
        /\ analytics_file.total_requests = events.creation
        /\ analytics_file.approved_requests = events.approval
        /\ analytics_file.rejected_requests = events.rejection
        /\ analytics_file.expired_requests = events.expiry

\* C33: once the monitoring loop has been stopped, the sweep that was in
\* progress has finished: no file of its listing is left unvisited and no
\* request is between the count of its expiry and its move to Rejected/.
C33_StopBetweenSweeps ==
    am_pc = "stopped" => (am_files = {} /\ am_cur.file = NoFile)

\* C34: monitor_needs_action never calls create_plan while it holds
\* task_lock: neither orchestrator process is ever blocked in the loop that
\* drains task_queue.
C34_NoSelfDeadlock == orch_pc # "blocked" /\ chk_pc # "blocked"

\* the draining loop has been reached in two sweeps or more and has left a
\* task waiting that is unprocessed and still in Needs_Action/
C34_Witness ==
    /\ orch_pc = "plans"
    /\ sweeps >= 2
    /\ \E i \in DOMAIN task_queue :
         task_queue[i] \in Needs_Action \ processed_tasks

\* C35: task_queue never contains the same task twice (and so cannot be
\* longer than the number of waiting tasks).
C35_QueueHoldsTaskOnce ==
    \A i, j \in DOMAIN task_queue : task_queue[i] = task_queue[j] => i = j

\* C36: a call of execute_plan on a Plan with requires_approval = false whose
\* task record is in Needs_Action/ leaves all five steps checked, leaves the
\* task in Done/ and out of Needs_Action/, and returns True.
C36_DirectExecutionSucceeds ==
    [][(exec_out' # exec_out /\ ~exec_out'.requires_approval) =>
         /\ Plans'[exec_out'.plan].steps = {1, 2, 3, 4, 5}
         /\ exec_out'.task_id \in Done'.tasks
         /\ exec_out'.task_id \notin Needs_Action'
         /\ exec_out'.returned]_vars

\* C37: whenever a task is in Done/ while a Plan of it is in Plans/, that
\* Plan eventually leaves Plans/ (monitor_plans moves it to Done/).
C37_PlansArchived ==
    \A t \in ArchiveTasks :
        (t \in Done.tasks /\ PlansOf(Plans, t) # {}) ~> (PlansOf(Plans, t) = {})

\* C38: on every calendar day at most three posts are published.
C38_DailyPostLimit ==
    \A d \in 0..MaxDays : Cardinality(PostsOn(d)) <= daily_limit

\* C39: an approved post that waits on a day after the one on which the daily
\* limit was reached is eventually published.
C39_PostingResumesNextDay ==
    \A p \in PostIds :
        (p \in approved_posts /\ daily_post_count >= daily_limit
           /\ li_today > post_reset_date)
        ~> (\E e \in posts_log : e.post = p)

\* C40: the orchestrator run started by the scheduler that has finished a
\* sweep and is idle ends without an alert: no step taken while that run
\* sleeps after a sweep that processed a task writes a SCHEDULER_ALERT record.
C40_CheckEndsWithoutAlert ==
    [][(chk_pc = "sleep" /\ chk_processed # {})
         => scheduler_alerts' = scheduler_alerts]_vars

====
